---- MODULE Spec2Model ----
(***************************************************************************)
(* Model of zotero-mcp: the three tool operations of                       *)
(* src/src/zotero_mcp/__init__.py (search_items, get_item_metadata,        *)
(* get_item_fulltext) and the client helpers of                            *)
(* src/src/zotero_mcp/client.py (get_zotero_client, AttachmentDetails,     *)
(* get_attachment_details).                                                *)
(*                                                                         *)
(* Representation.                                                         *)
(*  - A Python dict is a TLA+ function whose DOMAIN is the set of keys     *)
(*    that are present; d.get(k, default) is Get(d, k, default).           *)
(*  - A Python str is a sequence of atoms.  An atom is either one of the   *)
(*    whitespace characters SP (space) and NL (newline), or a chunk of     *)
(*    text that contains no newline and neither starts nor ends with       *)
(*    whitespace.  str.strip and textwrap.dedent only look at whitespace   *)
(*    and line structure, so they are computed exactly on this form.       *)
(*    The md5 strings are kept one character per atom because they are     *)
(*    compared with Python's code-point ordering.                          *)
(*  - Python's None is None in a str position and NoneObj in a dict or     *)
(*    object position; no input string is None.                            *)
(*  - A call that may raise yields Ok(v) or Raise(type, message).          *)
(***************************************************************************)
EXTENDS Integers, Sequences, FiniteSets, TLC

VARIABLES
    env,            \* the process environment read by get_zotero_client
    op,             \* the tool operation in progress ("idle" when none)
    pc,             \* position inside the operation
    args,           \* the operation's arguments
    zot,            \* the client get_zotero_client returned
    item,           \* local `item` of get_item_metadata / get_item_fulltext
    children,       \* local `children` of get_attachment_details
    attachment,     \* local `attachment` of get_item_fulltext
    full_text_data, \* local `full_text_data` of get_item_fulltext
    results,        \* local `results` of search_items
    result,         \* the string the operation returned
    raised,         \* the exception that escaped the operation
    calls           \* the calls made on the external client, in order, each
                    \* with its argument and whether it returned (ok) or raised

vars == <<env, op, pc, args, zot, item, children, attachment, full_text_data,
          results, result, raised, calls>>

----------------------------------------------------------------------------
(* Bounds of the model *)

\* longest list of children the children fetch returns in a tool request
MaxReqChildren == 2
\* longest list of children handed to the selection on its own
MaxChildren == 3
\* largest meta.numChildren
MaxNotes == 11
\* longest list of search results
MaxResults == 2

----------------------------------------------------------------------------
(* Python values *)

\* None where a str is expected, and None where a dict or object is expected
None == <<"<None>">>
NoneObj == [none |-> TRUE]
SP == " "
NL == "\n"

Ok(v) == [ok |-> TRUE, val |-> v]
Raise(t, m) == [ok |-> FALSE, type |-> t, msg |-> m]

Get(d, k, default) == IF k \in DOMAIN d THEN d[k] ELSE default

\* Python truthiness: None, "", [] and {} are falsy
Truthy(v) == v # None /\ v # <<>>
TruthyObj(v) == v # NoneObj /\ v # <<>>

IsSpace(a) == a \in {SP, NL}

\* sep.join(ss)
RECURSIVE Join(_, _)
Join(sep, ss) ==
    IF ss = <<>> THEN <<>>
    ELSE IF Len(ss) = 1 THEN ss[1]
    ELSE ss[1] \o sep \o Join(sep, Tail(ss))

\* str(n) for an int n >= 0
RECURSIVE Decimal(_)
Decimal(n) ==
    LET d == <<"0", "1", "2", "3", "4", "5", "6", "7", "8", "9">>[(n % 10) + 1]
    IN IF n < 10 THEN <<d>> ELSE Decimal(n \div 10) \o <<d>>

RECURSIVE LStrip(_)
LStrip(s) == IF s # <<>> /\ IsSpace(Head(s)) THEN LStrip(Tail(s)) ELSE s

RECURSIVE RStrip(_)
RStrip(s) ==
    IF s # <<>> /\ IsSpace(s[Len(s)]) THEN RStrip(SubSeq(s, 1, Len(s) - 1)) ELSE s

\* str.strip()
Strip(s) == RStrip(LStrip(s))

\* s.split("\n")
RECURSIVE SplitLines(_)
SplitLines(s) ==
    IF \A i \in 1..Len(s) : s[i] # NL THEN <<s>>
    ELSE LET i == CHOOSE j \in 1..Len(s) :
                      s[j] = NL /\ \A k \in 1..(j - 1) : s[k] # NL
         IN <<SubSeq(s, 1, i - 1)>> \o SplitLines(SubSeq(s, i + 1, Len(s)))

\* number of leading spaces of a line
RECURSIVE Indent(_)
Indent(line) ==
    IF line # <<>> /\ Head(line) = SP THEN 1 + Indent(Tail(line)) ELSE 0

BlankLine(line) == \A i \in 1..Len(line) : line[i] = SP

Min(S) == CHOOSE m \in S : \A n \in S : m <= n

\* textwrap.dedent: lines of whitespace only become empty, and the longest
\* run of leading whitespace common to all other lines is removed from each
dedent(s) ==
    LET lines == SplitLines(s)
        norm == [i \in 1..Len(lines) |->
                     IF BlankLine(lines[i]) THEN <<>> ELSE lines[i]]
        ind == {Indent(norm[i]) : i \in {j \in 1..Len(norm) : norm[j] # <<>>}}
        margin == IF ind = {} THEN 0 ELSE Min(ind)
        cut == [i \in 1..Len(norm) |->
                    IF norm[i] = <<>> THEN <<>>
                    ELSE SubSeq(norm[i], margin + 1, Len(norm[i]))]
    IN Join(<<NL>>, cut)

\* n spaces
Spaces(n) == [i \in 1..n |-> SP]

----------------------------------------------------------------------------
(* client.py: get_zotero_client *)

\* str.lower() of one character: the ASCII capitals are lowered, every other
\* character of the ASCII range is kept
lowerChar(c) ==
    CASE c = "A" -> "a" [] c = "B" -> "b" [] c = "C" -> "c" [] c = "D" -> "d"
      [] c = "E" -> "e" [] c = "F" -> "f" [] c = "G" -> "g" [] c = "H" -> "h"
      [] c = "I" -> "i" [] c = "J" -> "j" [] c = "K" -> "k" [] c = "L" -> "l"
      [] c = "M" -> "m" [] c = "N" -> "n" [] c = "O" -> "o" [] c = "P" -> "p"
      [] c = "Q" -> "q" [] c = "R" -> "r" [] c = "S" -> "s" [] c = "T" -> "t"
      [] c = "U" -> "u" [] c = "V" -> "v" [] c = "W" -> "w" [] c = "X" -> "x"
      [] c = "Y" -> "y" [] c = "Z" -> "z"
      [] OTHER -> c

\* str.lower() of the characters of one atom, character by character
RECURSIVE lowerAtom(_)
lowerAtom(a) ==
    IF Len(a) = 0 THEN a
    ELSE lowerChar(SubSeq(a, 1, 1)) \o lowerAtom(Tail(a))

lower(s) == [i \in 1..Len(s) |-> lowerAtom(s[i])]

MissingEnvMessage == <<"Missing required environment variables. Please set ZOTERO_LIBRARY_ID and ZOTERO_API_KEY">>

get_zotero_client(e) ==
    LET library_id0 == Get(e, "ZOTERO_LIBRARY_ID", None)
        library_type == Get(e, "ZOTERO_LIBRARY_TYPE", <<"user">>)
        api_key == Get(e, "ZOTERO_API_KEY", None)
        local == lower(Get(e, "ZOTERO_LOCAL", <<>>)) \in {<<"true">>, <<"yes">>, <<"1">>}
        library_id == IF local /\ ~Truthy(library_id0) THEN <<"0">> ELSE library_id0
    IN IF ~local \/ (Truthy(library_id) /\ Truthy(api_key))
       THEN Raise("ValueError", MissingEnvMessage)
       ELSE Ok([library_id |-> library_id, library_type |-> library_type,
                api_key |-> api_key, local |-> local])

----------------------------------------------------------------------------
(* client.py: AttachmentDetails and get_attachment_details *)

\* the entry of pydantic's report for one field that was given None
ValidationEntry(field) ==
    <<NL, field,
      NL, SP, SP, "Input should be a valid string [type=string_type, input_value=None, input_type=NoneType]",
      NL, SP, SP, SP, SP, "For further information visit https://errors.pydantic.dev/2.13/v/string_type">>

\* str(e) of the pydantic ValidationError: the number of rejected fields,
\* then one entry per rejected field in the order of declaration
ValidationMessage(key, content_type) ==
    LET rejected == (IF key = None THEN <<"key">> ELSE <<>>)
                    \o (IF content_type = None THEN <<"content_type">> ELSE <<>>)
        n == Len(rejected)
        noun == IF n = 1 THEN "validation error for AttachmentDetails"
                ELSE "validation errors for AttachmentDetails"
    IN Decimal(n) \o <<SP, noun>>
       \o Join(<<>>, [i \in 1..n |-> ValidationEntry(rejected[i])])

\* the pydantic model: both fields are declared str, so None is rejected
AttachmentDetails(key, content_type) ==
    IF key = None \/ content_type = None
    THEN Raise("ValidationError", ValidationMessage(key, content_type))
    ELSE Ok([key |-> key, content_type |-> content_type])

\* code-point order of the characters md5 strings are made of
Ord(c) == CHOOSE i \in 1..16 :
    <<"0", "1", "2", "3", "4", "5", "6", "7", "8", "9",
      "a", "b", "c", "d", "e", "f">>[i] = c

\* a < b for Python str
RECURSIVE StrLess(_, _)
StrLess(a, b) ==
    IF b = <<>> THEN FALSE
    ELSE IF a = <<>> THEN TRUE
    ELSE IF Head(a) = Head(b) THEN StrLess(Tail(a), Tail(b))
    ELSE Ord(Head(a)) < Ord(Head(b))

\* one step of the stable descending sort: x goes before the first element
\* whose sort key is smaller than its own
RECURSIVE InsertDesc(_, _)
InsertDesc(sorted, x) ==
    IF sorted = <<>> THEN <<x>>
    ELSE IF StrLess(Head(sorted)[3], x[3]) THEN <<x>> \o sorted
    ELSE <<Head(sorted)>> \o InsertDesc(Tail(sorted), x)

\* Mutant of SortByMd5Desc: the sort without reverse=True
RECURSIVE SortByMd5Asc(_)
SortByMd5Asc(l) ==
    IF l = <<>> THEN <<>>
    ELSE LET rest == SortByMd5Asc(Tail(l))
             x == Head(l)
             smaller == SelectSeq(rest, LAMBDA y : StrLess(y[3], x[3]))
             others == SelectSeq(rest, LAMBDA y : ~StrLess(y[3], x[3]))
         IN smaller \o <<x>> \o others

\* list.sort(key=lambda x: x[2], reverse=True): stable, greatest md5 first
RECURSIVE SortByMd5Desc(_)
SortByMd5Desc(l) ==
    IF l = <<>> THEN <<>>
    ELSE InsertDesc(SortByMd5Desc(SubSeq(l, 1, Len(l) - 1)), l[Len(l)])

\* Mutant of IsDirectAttachment: the direct-attachment branch is missing
IsDirectAttachmentNever(it) == FALSE

\* the item is itself an attachment (client.py:51)
IsDirectAttachment(it) ==
    Get(Get(it, "data", <<>>), "itemType", None) = <<"attachment">>

\* the direct-attachment branch (client.py:51-56)
DirectAttachment(it) ==
    LET data == Get(it, "data", <<>>)
    IN AttachmentDetails(Get(data, "key", None), Get(data, "contentType", None))

\* the key the children are fetched with (client.py:60)
ChildrenKey(it) == Get(Get(it, "data", <<>>), "key", <<>>)

\* the loop that groups the attachment children (client.py:62-77)
RECURSIVE GroupChildren(_)
GroupChildren(cs) ==
    IF cs = <<>> THEN [pdfs |-> <<>>, htmls |-> <<>>, others |-> <<>>]
    ELSE LET g == GroupChildren(SubSeq(cs, 1, Len(cs) - 1))
             child_data == Get(cs[Len(cs)], "data", <<>>)
             content_type == Get(child_data, "contentType", None)
             file_size == Get(child_data, "md5", <<>>)
             t == <<Get(child_data, "key", None), content_type, file_size>>
         IN IF Get(child_data, "itemType", None) # <<"attachment">> THEN g
            ELSE IF content_type = <<"application/pdf">>
                 THEN [g EXCEPT !.pdfs = Append(@, t)]
            ELSE IF content_type = <<"text/html">>
                 THEN [g EXCEPT !.htmls = Append(@, t)]
            ELSE [g EXCEPT !.others = Append(@, t)]

\* the first element of a bucket after its sort, as AttachmentDetails
FirstOf(bucket) ==
    LET s == SortByMd5Desc(bucket) IN AttachmentDetails(s[1][1], s[1][2])

\* the body of the try block once the children are fetched (client.py:62-97);
\* Ok(None) when it falls through to the final return
SelectChild(cs) ==
    LET g == GroupChildren(cs)
    IN IF g.pdfs # <<>> THEN FirstOf(g.pdfs)
       ELSE IF g.htmls # <<>> THEN FirstOf(g.htmls)
       ELSE IF g.others # <<>> THEN FirstOf(g.others)
       ELSE Ok(NoneObj)

\* Mutant of SelectFromChildren: no try/except around the children fetch
SelectPropagating(fetched) ==
    IF ~fetched.ok THEN fetched ELSE SelectChild(fetched.val)

\* the try/except around the children fetch (client.py:59-101): fetched is
\* the outcome of zot.children; any exception of the block is swallowed
SelectFromChildren(fetched) ==
    IF ~fetched.ok THEN Ok(NoneObj)
    ELSE LET r == SelectChild(fetched.val)
         IN IF r.ok THEN r ELSE Ok(NoneObj)

----------------------------------------------------------------------------
(* __init__.py: format_item *)

\* the creators loop (__init__.py:24-29)
RECURSIVE RenderCreators(_)
RenderCreators(cs) ==
    IF cs = <<>> THEN <<>>
    ELSE LET creator == Head(cs)
             rest == RenderCreators(Tail(cs))
         IN IF "firstName" \in DOMAIN creator /\ "lastName" \in DOMAIN creator
            THEN <<creator["lastName"] \o <<",", SP>> \o creator["firstName"]>> \o rest
            ELSE IF "name" \in DOMAIN creator THEN <<creator["name"]>> \o rest
            ELSE rest

TagList(tags) == [i \in 1..Len(tags) |-> tags[i]["tag"]]

\* Mutant of NotesPart: the line is shown whenever numChildren is present
NotesPartWhenPresent(it) ==
    LET meta == Get(it, "meta", <<>>)
    IN IF "numChildren" \in DOMAIN meta
       THEN << <<"Number of notes:", SP>> \o Decimal(meta["numChildren"]) >>
       ELSE <<>>

\* the notes line (__init__.py:49-50)
NotesPart(it) ==
    LET notes == Get(Get(it, "meta", <<>>), "numChildren", 0)
    IN IF notes # 0
       THEN << <<"Number of notes:", SP>> \o Decimal(notes) >>
       ELSE <<>>

format_item(it) ==
    LET data == it["data"]
        basic == << <<"Title:", SP>> \o Get(data, "title", <<"Untitled">>),
                    <<"Type:", SP>> \o Get(data, "itemType", <<"unknown">>),
                    <<"Date:", SP>> \o Get(data, "date", <<"No date">>) >>
        creators == RenderCreators(Get(data, "creators", <<>>))
        authors == IF creators # <<>>
                   THEN << <<"Authors:", SP>> \o Join(<<";", SP>>, creators) >>
                   ELSE <<>>
        abstract == Get(data, "abstractNote", None)
        abstractPart == IF Truthy(abstract)
                        THEN << <<NL, "Abstract:", NL>> \o abstract >>
                        ELSE <<>>
        \* data.get("tags") is only tested for truthiness: None and [] alike
        tags == Get(data, "tags", <<>>)
        tagsPart == IF tags # <<>>
                    THEN << <<NL, "Tags:", SP>> \o Join(<<",", SP>>, TagList(tags)) >>
                    ELSE <<>>
        url == Get(data, "url", None)
        urlPart == IF Truthy(url) THEN << <<"URL:", SP>> \o url >> ELSE <<>>
        doi == Get(data, "DOI", None)
        doiPart == IF Truthy(doi) THEN << <<"DOI:", SP>> \o doi >> ELSE <<>>
        notesPart == NotesPart(it)
    IN Join(<<NL>>, basic \o authors \o abstractPart \o tagsPart \o urlPart
                     \o doiPart \o notesPart)

----------------------------------------------------------------------------
(* __init__.py: the strings the tool operations return *)

\* indentation of the template lines of get_item_fulltext's f-string
TemplateIndent == 12

\* Mutant of NotFoundText: the requested key is left out of the message
NotFoundTextNoKey(item_key) == <<"No item found">>

NotFoundText(item_key) == <<"No item found with key:", SP>> \o item_key

MetadataErrorText(e) == <<"Error retrieving item metadata:", SP>> \o e.msg

FulltextErrorText(e) == <<"Error retrieving item full text:", SP>> \o e.msg

NoAttachmentText == <<"[No suitable attachment found for full text extraction]">>

NoExtractionText == <<"[Attachment available but text extraction not possible]">>

NoResultsText == <<"No items found matching your query.">>

\* item_text once the fulltext fetch returned (__init__.py:90-93)
ItemText(ftd) ==
    IF TruthyObj(ftd) /\ "content" \in DOMAIN ftd
    THEN ftd["content"]
    ELSE NoExtractionText

\* the f-string of the return statement, before .strip() (__init__.py:98-103)
FulltextTemplate(it, att, item_text) ==
    <<NL>> \o Spaces(TemplateIndent) \o format_item(it) \o <<NL>>
    \o <<NL>> \o Spaces(TemplateIndent) \o <<"Attachment Item Key:", SP>>
    \o (IF att # NoneObj THEN att.key ELSE <<>>) \o <<NL>>
    \o <<NL>> \o Spaces(TemplateIndent) \o <<"Full Text:">> \o <<NL>> \o item_text

\* the return statement of get_item_fulltext (__init__.py:97-104)
FulltextReport(it, att, item_text) ==
    dedent(Strip(FulltextTemplate(it, att, item_text)))

\* one entry of the search listing (__init__.py:134-159)
SearchEntry(it) ==
    LET data == it["data"]
        title == Get(data, "title", <<"Untitled">>)
        item_type == Get(data, "itemType", <<"unknown">>)
        date == Get(data, "date", <<>>)
        item_key == Get(it, "key", <<>>)
        abstract == Get(data, "abstractNote", <<>>)
        creators == RenderCreators(Get(data, "creators", <<>>))
        creator_str == IF creators # <<>> THEN Join(<<";", SP>>, creators)
                       ELSE <<"No authors">>
    IN Join(<<NL>>,
            << <<"-", SP>> \o title \o <<SP, "(">> \o item_type \o <<")">>,
               <<SP, SP, "Item Key:", SP>> \o item_key,
               <<SP, SP, "Date:", SP>> \o date,
               <<SP, SP, "Authors:", SP>> \o creator_str,
               <<SP, SP, "Abstract:", SP>> \o abstract \o <<NL>> >>)

\* the listing search_items returns (__init__.py:128-161)
SearchReport(rs) ==
    IF rs = <<>> THEN NoResultsText
    ELSE Join(<<NL>>, [i \in 1..Len(rs) |-> SearchEntry(rs[i])])

----------------------------------------------------------------------------
(* Inputs: the environment, the arguments and the external client's answers *)

\* the dicts with no entry or with the one entry k: v, for v in V
Opt(k, V) == {<<>>} \cup {k :> v : v \in V}

Envs ==
    {a @@ b @@ c :
        a \in Opt("ZOTERO_LIBRARY_ID", {<<>>, <<"12345">>}),
        b \in Opt("ZOTERO_API_KEY", {<<>>, <<"secret">>}),
        c \in Opt("ZOTERO_LOCAL", {<<"True">>, <<"YES">>, <<"no">>})}

Keys == {<<"ABCD1234">>, <<"NONEXISTENT">>}

\* tests/conftest.py sample_item
SampleItem ==
    [key |-> <<"ABCD1234">>,
     data |-> [key |-> <<"ABCD1234">>,
               itemType |-> <<"journalArticle">>,
               title |-> <<"Test Article">>,
               date |-> <<"2024">>,
               creators |-> <<[firstName |-> <<"John">>, lastName |-> <<"Doe">>],
                              [firstName |-> <<"Jane">>, lastName |-> <<"Smith">>]>>,
               abstractNote |-> <<"This is a test abstract">>,
               tags |-> <<[tag |-> <<"test">>], [tag |-> <<"article">>]>>,
               url |-> <<"https://example.com">>,
               DOI |-> <<"10.1234/test">>],
     meta |-> [numChildren |-> 2]]

\* a record with nothing but its key
SparseItem == [key |-> <<"SPARSE01">>, data |-> [key |-> <<"SPARSE01">>]]

\* tests/conftest.py sample_attachment
AttachmentItem ==
    [key |-> <<"XYZ789">>,
     data |-> [key |-> <<"XYZ789">>,
               itemType |-> <<"attachment">>,
               contentType |-> <<"application/pdf">>,
               md5 |-> <<"1", "2", "3">>]]

\* an attachment record without contentType
BareAttachmentItem ==
    [key |-> <<"BARE0001">>,
     data |-> [key |-> <<"BARE0001">>, itemType |-> <<"attachment">>,
               title |-> <<"Snapshot">>]]

Items == {SampleItem, SparseItem, AttachmentItem, BareAttachmentItem}

NoteChild ==
    [key |-> <<"NOTE0001">>,
     data |-> [key |-> <<"NOTE0001">>, itemType |-> <<"note">>]]

HtmlChild ==
    [key |-> <<"HTML0001">>,
     data |-> [key |-> <<"HTML0001">>, itemType |-> <<"attachment">>,
               contentType |-> <<"text/html">>, md5 |-> <<"9">>]]

BareChild ==
    [key |-> <<"BARE0002">>,
     data |-> [key |-> <<"BARE0002">>, itemType |-> <<"attachment">>]]

ReqChildren == {NoteChild, AttachmentItem, HtmlChild, BareChild}

SeqsUpTo(S, n) == UNION {[1..k -> S] : k \in 0..n}

ErrorMessages == {<<"Connection refused">>}

Failures == {Raise("Exception", m) : m \in ErrorMessages}

\* zot.item: raises, finds nothing, or returns a record
ItemOutcomes == Failures \cup {Ok(NoneObj), Ok(<<>>)} \cup {Ok(i) : i \in Items}

\* zot.children: raises or returns a list of records
ReqChildrenOutcomes ==
    Failures \cup {Ok(cs) : cs \in SeqsUpTo(ReqChildren, MaxReqChildren)}

Contents ==
    {<<"Sample full text content">>,
     <<>>,
     <<SP, SP, "indented", NL, SP, NL, "end", SP, NL>>}

\* zot.fulltext_item: raises, returns nothing, or returns a dict
FulltextOutcomes ==
    Failures \cup {Ok(NoneObj), Ok(<<>>), Ok([indexedPages |-> 3])}
    \cup {Ok([content |-> c, indexedPages |-> 3]) : c \in Contents}

\* zot.add_parameters: raises or returns
AddParametersOutcomes == Failures \cup {Ok(NoneObj)}

\* zot.items: raises or returns a list of records
ItemsOutcomes == Failures \cup {Ok(rs) : rs \in SeqsUpTo(Items, MaxResults)}

\* the arguments a caller passes to search_items: query, and any of the
\* keyword arguments
SearchCalls ==
    {("query" :> <<"test">>) @@ m @@ t @@ l :
        m \in Opt("qmode", {<<"everything">>}),
        t \in Opt("tag", {<<"article">>}),
        l \in Opt("limit", {5})}

\* the parameters of search_items once the defaults of its signature are
\* applied (__init__.py:114-119); passed names the arguments the caller gave
BindSearchArgs(given) ==
    [query |-> given["query"],
     qmode |-> Get(given, "qmode", <<"titleCreatorYear">>),
     tag |-> Get(given, "tag", None),
     limit |-> Get(given, "limit", 10),
     passed |-> DOMAIN given]

SearchArgs == {BindSearchArgs(g) : g \in SearchCalls}

\* Mutant of AddParametersArgs: the tag is forwarded too
AddParametersArgsWithTag(a) ==
    [q |-> a.query, qmode |-> a.qmode, limit |-> a.limit, tag |-> a.tag]

\* the keyword arguments of zot.add_parameters (__init__.py:124)
AddParametersArgs(a) == [q |-> a.query, qmode |-> a.qmode, limit |-> a.limit]

NoExc == Ok(NoneObj)

----------------------------------------------------------------------------
(* The tool operations, one action per stretch between external calls *)

Init ==
    /\ env \in Envs
    /\ op = "idle"
    /\ pc = "idle"
    /\ args = <<>>
    /\ zot = NoneObj
    /\ item = NoneObj
    /\ children = NoneObj
    /\ attachment = NoneObj
    /\ full_text_data = NoneObj
    /\ results = NoneObj
    /\ result = None
    /\ raised = NoExc
    /\ calls = <<>>

\* a tool invocation arrives; the previous one, if any, has returned or raised
Invoke(o, a) ==
    /\ pc \in {"idle", "done"}
    /\ op' = o
    /\ args' = a
    /\ pc' = "client"
    /\ zot' = NoneObj
    /\ item' = NoneObj
    /\ children' = NoneObj
    /\ attachment' = NoneObj
    /\ full_text_data' = NoneObj
    /\ results' = NoneObj
    /\ result' = None
    /\ raised' = NoExc
    /\ calls' = <<>>
    /\ UNCHANGED env

InvokeMetadata == \E k \in Keys : Invoke("metadata", [item_key |-> k])

InvokeFulltext == \E k \in Keys : Invoke("fulltext", [item_key |-> k])

InvokeSearch == \E a \in SearchArgs : Invoke("search", a)

\* the operation returns text
Return(text) ==
    /\ result' = text
    /\ pc' = "done"
    /\ UNCHANGED raised

\* an exception leaves the operation
Escape(e) ==
    /\ raised' = e
    /\ pc' = "done"
    /\ UNCHANGED result

\* zot = get_zotero_client(), outside any try block
GetClient ==
    /\ pc = "client"
    /\ LET r == get_zotero_client(env)
       IN IF r.ok
          THEN /\ zot' = r.val
               /\ pc' = IF op = "search" THEN "add_parameters" ELSE "item"
               /\ UNCHANGED <<result, raised>>
          ELSE /\ Escape(r)
               /\ UNCHANGED zot
    /\ UNCHANGED <<env, op, args, results, item, children, attachment, full_text_data, calls>>

\* get_item_metadata from zot.item to its return (__init__.py:63-69)
MetadataFetchItem ==
    /\ pc = "item"
    /\ op = "metadata"
    /\ \E out \in ItemOutcomes :
        /\ calls' = Append(calls, [name |-> "item", arg |-> args.item_key, ok |-> out.ok])
        /\ IF ~out.ok
           THEN Return(MetadataErrorText(out)) /\ UNCHANGED item
           ELSE /\ item' = out.val
                /\ IF ~TruthyObj(out.val)
                   THEN Return(NotFoundText(args.item_key))
                   ELSE Return(format_item(out.val))
    /\ UNCHANGED <<env, op, args, results, zot, children, attachment, full_text_data>>

\* get_item_fulltext from zot.item up to the children fetch or, for a
\* record that is itself an attachment, up to the fulltext fetch
\* (__init__.py:80-86, client.py:47-56)
FulltextFetchItem ==
    /\ pc = "item"
    /\ op = "fulltext"
    /\ \E out \in ItemOutcomes :
        /\ calls' = Append(calls, [name |-> "item", arg |-> args.item_key, ok |-> out.ok])
        /\ IF ~out.ok
           THEN Return(FulltextErrorText(out)) /\ UNCHANGED <<item, attachment>>
           ELSE /\ item' = out.val
                /\ IF ~TruthyObj(out.val)
                   THEN Return(NotFoundText(args.item_key)) /\ UNCHANGED attachment
                   ELSE IF IsDirectAttachment(out.val)
                   THEN LET r == DirectAttachment(out.val)
                        IN IF r.ok
                           THEN /\ attachment' = r.val
                                /\ pc' = "fulltext"
                                /\ UNCHANGED <<result, raised>>
                           ELSE Return(FulltextErrorText(r)) /\ UNCHANGED attachment
                   ELSE /\ pc' = "children"
                        /\ UNCHANGED <<attachment, result, raised>>
    /\ UNCHANGED <<env, op, args, results, zot, children, full_text_data>>

\* get_attachment_details from zot.children to its return, then
\* get_item_fulltext up to the fulltext fetch or, with no attachment, to its
\* return (client.py:59-101, __init__.py:86-104)
FulltextFetchChildren ==
    /\ pc = "children"
    /\ \E out \in ReqChildrenOutcomes :
        /\ calls' = Append(calls, [name |-> "children", arg |-> ChildrenKey(item), ok |-> out.ok])
        /\ children' = out
        /\ LET r == SelectFromChildren(out)
           IN IF ~r.ok
              THEN Return(FulltextErrorText(r)) /\ UNCHANGED attachment
              ELSE /\ attachment' = r.val
                   /\ IF r.val # NoneObj
                      THEN pc' = "fulltext" /\ UNCHANGED <<result, raised>>
                      ELSE Return(FulltextReport(item, r.val, NoAttachmentText))
    /\ UNCHANGED <<env, op, args, results, zot, item, full_text_data>>

\* get_item_fulltext from zot.fulltext_item to its return (__init__.py:89-106)
FulltextFetchText ==
    /\ pc = "fulltext"
    /\ \E out \in FulltextOutcomes :
        /\ calls' = Append(calls, [name |-> "fulltext_item", arg |-> attachment.key, ok |-> out.ok])
        /\ IF ~out.ok
           THEN Return(FulltextErrorText(out)) /\ UNCHANGED full_text_data
           ELSE /\ full_text_data' = out.val
                /\ Return(FulltextReport(item, attachment, ItemText(out.val)))
    /\ UNCHANGED <<env, op, args, results, zot, item, children, attachment>>

\* search_items: zot.add_parameters(q=query, qmode=qmode, limit=limit),
\* with no try block around it (__init__.py:124)
SearchAddParameters ==
    /\ pc = "add_parameters"
    /\ \E out \in AddParametersOutcomes :
        /\ calls' = Append(calls,
                [name |-> "add_parameters",
                 arg |-> AddParametersArgs(args),
                 ok |-> out.ok])
        /\ IF out.ok
           THEN pc' = "items" /\ UNCHANGED <<result, raised>>
           ELSE Escape(out)
    /\ UNCHANGED <<env, op, args, results, zot, item, children, attachment, full_text_data>>

\* search_items from zot.items() to its return (__init__.py:126-161)
SearchItems ==
    /\ pc = "items"
    /\ \E out \in ItemsOutcomes :
        /\ calls' = Append(calls, [name |-> "items", arg |-> <<>>, ok |-> out.ok])
        /\ IF out.ok
           THEN results' = out.val /\ Return(SearchReport(out.val))
           ELSE Escape(out) /\ UNCHANGED results
    /\ UNCHANGED <<env, op, args, zot, item, children, attachment, full_text_data>>

Next ==
    \/ InvokeMetadata
    \/ InvokeFulltext
    \/ InvokeSearch
    \/ GetClient
    \/ MetadataFetchItem
    \/ FulltextFetchItem
    \/ FulltextFetchChildren
    \/ FulltextFetchText
    \/ SearchAddParameters
    \/ SearchItems

Spec == Init /\ [][Next]_vars

----------------------------------------------------------------------------
(* get_attachment_details on its own, over every list of children *)

ChildKey(i) == <<"CHILD">> \o Decimal(i)

\* what a child record may carry besides its position: no data at all, a
\* note, an attachment with a key, or an attachment without one
ChildShapes ==
    {<<>>, "itemType" :> <<"note">>}
    \cup {("itemType" :> <<"attachment">>) @@ c @@ m @@ k :
            c \in Opt("contentType", {<<"application/pdf">>, <<"text/html">>,
                                      <<"image/png">>}),
            m \in Opt("md5", {<<"1", "0">>, <<"9">>}),
            k \in {"key" :> <<"?">>}}
    \cup {("itemType" :> <<"attachment">>) @@ c :
            c \in Opt("contentType", {<<"application/pdf">>, <<"text/html">>,
                                      <<"image/png">>})}

\* the record of shape sh at position i; its key, when it has one, is ChildKey(i)
ChildAt(sh, i) ==
    IF sh = <<>> THEN <<>>
    ELSE [data |-> [f \in DOMAIN sh |-> IF f = "key" THEN ChildKey(i) ELSE sh[f]]]

ChildrenLists ==
    {[i \in 1..Len(shs) |-> ChildAt(shs[i], i)] :
        shs \in SeqsUpTo(ChildShapes, MaxChildren)}

ChildrenOutcomes == Failures \cup {Ok(cs) : cs \in ChildrenLists}

HtmlAttachmentItem ==
    [key |-> <<"HTML0002">>,
     data |-> [key |-> <<"HTML0002">>, itemType |-> <<"attachment">>,
               contentType |-> <<"text/html">>]]

SelectItems == {SampleItem, AttachmentItem, HtmlAttachmentItem, BareAttachmentItem}

InitSelect ==
    /\ env = <<>>
    /\ op = "select"
    /\ pc = "select"
    /\ args = <<>>
    /\ zot = NoneObj
    /\ item \in SelectItems
    /\ children = NoneObj
    /\ attachment = NoneObj
    /\ full_text_data = NoneObj
    /\ results = NoneObj
    /\ result = None
    /\ raised = NoExc
    /\ calls = <<>>

\* get_attachment_details up to the children fetch or, for a record that
\* is itself an attachment, to its return (client.py:47-56)
SelectStart ==
    /\ pc = "select"
    /\ IF IsDirectAttachment(item)
       THEN LET r == DirectAttachment(item)
            IN /\ pc' = "returned"
               /\ IF r.ok
                  THEN attachment' = r.val /\ UNCHANGED raised
                  ELSE raised' = r /\ UNCHANGED attachment
       ELSE pc' = "children" /\ UNCHANGED <<attachment, raised>>
    /\ UNCHANGED <<env, op, args, results, zot, item, children, full_text_data, result, calls>>

\* get_attachment_details from zot.children to its return (client.py:59-101)
SelectFetchChildren ==
    /\ pc = "children"
    /\ \E out \in ChildrenOutcomes :
        /\ calls' = Append(calls, [name |-> "children", arg |-> ChildrenKey(item), ok |-> out.ok])
        /\ children' = out
        /\ LET r == SelectFromChildren(out)
           IN IF r.ok
              THEN attachment' = r.val /\ UNCHANGED raised
              ELSE raised' = r /\ UNCHANGED attachment
        /\ pc' = "returned"
    /\ UNCHANGED <<env, op, args, results, zot, item, full_text_data, result>>

NextSelect == SelectStart \/ SelectFetchChildren

SpecSelect == InitSelect /\ [][NextSelect]_vars

----------------------------------------------------------------------------
(* format_item on its own, over sparse records *)

FormatItems ==
    {[key |-> <<"ABCD1234">>, data |-> t @@ ty @@ d @@ c @@ a @@ tg @@ u @@ doi] @@ m :
        t \in Opt("title", {<<>>, <<"Test Article">>}),
        ty \in Opt("itemType", {<<"journalArticle">>}),
        d \in Opt("date", {<<"2024">>}),
        c \in Opt("creators",
                  {<<>>,
                   <<[name |-> <<"ACME Corp">>]>>,
                   <<[firstName |-> <<"John">>, lastName |-> <<"Doe">>],
                     [name |-> <<"ACME Corp">>]>>}),
        a \in Opt("abstractNote", {<<>>, <<"First line", NL, "second line">>}),
        tg \in Opt("tags", {<<>>, <<[tag |-> <<"test">>]>>,
                            <<[tag |-> <<"test">>], [tag |-> <<"article">>]>>}),
        u \in Opt("url", {<<>>, <<"https://example.com">>}),
        doi \in Opt("DOI", {<<>>, <<"10.1234/test">>}),
        m \in Opt("meta", {<<>>} \cup {[numChildren |-> n] : n \in {0, 2, MaxNotes}})}

InitFormat ==
    /\ env = <<>>
    /\ op = "format"
    /\ pc = "format"
    /\ args = <<>>
    /\ zot = NoneObj
    /\ item \in FormatItems
    /\ children = NoneObj
    /\ attachment = NoneObj
    /\ full_text_data = NoneObj
    /\ results = NoneObj
    /\ result = None
    /\ raised = NoExc
    /\ calls = <<>>

\* format_item(item) (__init__.py:12-52)
FormatItem ==
    /\ pc = "format"
    /\ result' = format_item(item)
    /\ pc' = "done"
    /\ UNCHANGED <<env, op, args, results, zot, item, children, attachment, full_text_data,
                   raised, calls>>

NextFormat == FormatItem

SpecFormat == InitFormat /\ [][NextFormat]_vars

----------------------------------------------------------------------------
(* Properties *)

LastCall == calls[Len(calls)]

ErrorPrefixes == {"Error retrieving item metadata:", "Error retrieving item full text:"}

IsErrorText(text) == text # <<>> /\ Head(text) \in ErrorPrefixes

\* text is the report for record it: the metadata block, a blank line, the
\* attachment key line, a blank line, the Full Text line and the body, the
\* two labelled lines possibly indented
ReportShape(text, it, key, body) ==
    LET meta == SplitLines(format_item(it))
        n == Len(meta)
        lines == SplitLines(text)
        b == SplitLines(body)
    IN /\ Len(lines) = n + 4 + Len(b)
       /\ SubSeq(lines, 1, n) = meta
       /\ lines[n + 1] = <<>>
       /\ LStrip(lines[n + 2]) = <<"Attachment Item Key:", SP>> \o key
       /\ lines[n + 3] = <<>>
       /\ LStrip(lines[n + 4]) = <<"Full Text:">>
       /\ SubSeq(lines, n + 5, Len(lines)) = b

\* C1: once the client is constructed, an operation in which an external
\* call failed still returns a text and lets no exception reach the caller.
C1_FailuresCaught ==
    (pc = "done" /\ zot # NoneObj /\ \E i \in 1..Len(calls) : ~calls[i].ok)
        => (raised = NoExc /\ result # None)

\* a fetched text that strip and dedent leave as it is
CleanText(c) == c # <<>> /\ dedent(Strip(c)) = c

\* C3: with an attachment selected, the body is the fetched content when the
\* fulltext fetch succeeds with a content field, and in every other case
\* (the fetch fails, returns nothing, or has no content field) the result is
\* still the full report with the extraction placeholder, not an error text.
C3_ExtractionDegrades ==
    (pc = "done" /\ op = "fulltext" /\ attachment # NoneObj
        /\ Len(calls) >= 1 /\ LastCall.name = "fulltext_item")
    => IF LastCall.ok /\ TruthyObj(full_text_data) /\ "content" \in DOMAIN full_text_data
       THEN /\ ~IsErrorText(result)
            /\ CleanText(full_text_data["content"])
                 => ReportShape(result, item, attachment.key, full_text_data["content"])
       ELSE ReportShape(result, item, attachment.key,
                <<"[Attachment available but text extraction not possible]">>)

EnvSet(k) == k \in DOMAIN env /\ env[k] # <<>>

EnvLocal ==
    "ZOTERO_LOCAL" \in DOMAIN env /\ env["ZOTERO_LOCAL"] \in {<<"True">>, <<"YES">>}

\* C4: get_zotero_client raises exactly when a required setting is missing:
\* outside local mode it returns a client iff the library id and the API
\* credential are both set; in local mode it always returns a client, with
\* library id "0" when none is set.
C4_ConfigErrorIffMissing ==
    (op \in {"metadata", "fulltext", "search"} /\ pc # "client")
    => /\ (zot = NoneObj) <=>
              (~EnvLocal /\ ~(EnvSet("ZOTERO_LIBRARY_ID") /\ EnvSet("ZOTERO_API_KEY")))
       /\ (zot # NoneObj /\ EnvLocal /\ ~EnvSet("ZOTERO_LIBRARY_ID"))
              => zot.library_id = <<"0">>

\* C7: when the children fetch fails, or returns no children, for a found
\* record that is not an attachment, nothing is raised, no attachment is
\* selected, and item_fulltext returns the normal report with an empty
\* attachment key and the no-attachment placeholder, not an error text.
C7_ChildrenFailureDegrades ==
    (pc = "done" /\ op = "fulltext" /\ children # NoneObj
        /\ (~children.ok \/ children.val = <<>>))
    => /\ raised = NoExc
       /\ attachment = NoneObj
       /\ ~IsErrorText(result)
       /\ ReportShape(result, item, <<>>,
                <<"[No suitable attachment found for full text extraction]">>)

C7_Witness ==
    /\ pc = "done" /\ op = "fulltext"
    /\ children # NoneObj /\ ~children.ok
    /\ item = SampleItem
    /\ result # None

\* C8: when the item fetch returns nothing, item_metadata and item_fulltext
\* return exactly "No item found with key: <key>" with the requested key;
\* when the item fetch fails they return an "Error retrieving ..." text,
\* which is a different string.
C8_NotFoundText ==
    (pc = "done" /\ op \in {"metadata", "fulltext"} /\ Len(calls) >= 1)
    => /\ (calls[1].ok /\ ~TruthyObj(item))
            => result = <<"No item found with key:", SP>> \o args.item_key
       /\ ~calls[1].ok
            => /\ IsErrorText(result)
               /\ result # <<"No item found with key:", SP>> \o args.item_key

C8_Witness ==
    /\ pc = "done" /\ op = "fulltext"
    /\ Len(calls) = 1 /\ calls[1].ok /\ item = NoneObj
    /\ args.item_key = <<"NONEXISTENT">>
    /\ result = <<"No item found with key:", SP, "NONEXISTENT">>

\* the record is itself an attachment and carries no contentType
BareAttachment(it) ==
    /\ Get(it["data"], "itemType", None) = <<"attachment">>
    /\ "contentType" \notin DOMAIN it["data"]

\* C9: for every found record (one that is itself an attachment without
\* contentType aside), the item_fulltext result is exactly format_item(item),
\* a blank line, "Attachment Item Key: <key>" at the start of its line, a
\* blank line, "Full Text:" at the start of its line, a newline and the
\* text body unchanged.
C9_ReportComposition ==
    (pc = "done" /\ op = "fulltext" /\ Len(calls) >= 1 /\ calls[1].ok
        /\ TruthyObj(item) /\ ~BareAttachment(item))
    => LET key == IF attachment = NoneObj THEN <<>> ELSE attachment.key
           body ==
               IF attachment = NoneObj
               THEN <<"[No suitable attachment found for full text extraction]">>
               ELSE IF LastCall.ok /\ TruthyObj(full_text_data)
                        /\ "content" \in DOMAIN full_text_data
               THEN full_text_data["content"]
               ELSE <<"[Attachment available but text extraction not possible]">>
       IN result = format_item(item) \o <<NL, NL>>
                   \o <<"Attachment Item Key:", SP>> \o key \o <<NL, NL>>
                   \o <<"Full Text:", NL>> \o body

----------------------------------------------------------------------------
(* Properties of the selection *)

ChildData(c) == IF "data" \in DOMAIN c THEN c["data"] ELSE <<>>

IsAttachmentChild(c) ==
    "itemType" \in DOMAIN ChildData(c) /\ ChildData(c)["itemType"] = <<"attachment">>

\* the priority bucket of an attachment child: 1 pdf, 2 html, 3 anything else
BucketOf(c) ==
    IF "contentType" \notin DOMAIN ChildData(c) THEN 3
    ELSE IF ChildData(c)["contentType"] = <<"application/pdf">> THEN 1
    ELSE IF ChildData(c)["contentType"] = <<"text/html">> THEN 2
    ELSE 3

\* the md5 of a child, the empty string when it has none
Md5Of(c) == IF "md5" \in DOMAIN ChildData(c) THEN ChildData(c)["md5"] ELSE <<>>

\* the positions of the attachment children of the list cs
AttachmentPositions(cs) == {i \in 1..Len(cs) : IsAttachmentChild(cs[i])}

\* the position the reference choice picks among the children cs, which
\* has at least one attachment: in the first non-empty bucket, the greatest
\* md5, the earliest position among equal md5
ReferencePosition(cs) ==
    LET atts == AttachmentPositions(cs)
        best == Min({BucketOf(cs[i]) : i \in atts})
        cands == {i \in atts : BucketOf(cs[i]) = best}
    IN CHOOSE i \in cands :
           \A j \in cands :
               /\ ~StrLess(Md5Of(cs[i]), Md5Of(cs[j]))
               /\ Md5Of(cs[j]) = Md5Of(cs[i]) => i <= j

\* the selection ran on a record that is not an attachment, the children
\* fetch returned, and every attachment child has a key and a contentType
C2_Case ==
    /\ pc = "returned"
    /\ Get(item["data"], "itemType", None) # <<"attachment">>
    /\ children # NoneObj /\ children.ok
    /\ \A i \in AttachmentPositions(children.val) :
           {"key", "contentType"} \subseteq DOMAIN ChildData(children.val[i])

\* C2: in that case get_attachment_details returns exactly the reference
\* choice, and 'none found' exactly when no child is an attachment.
C2_ReferenceChoice ==
    C2_Case =>
        LET cs == children.val
        IN /\ raised = NoExc
           /\ (attachment = NoneObj) <=> (AttachmentPositions(cs) = {})
           /\ AttachmentPositions(cs) # {} =>
                LET w == ChildData(cs[ReferencePosition(cs)])
                IN attachment = [key |-> w["key"], content_type |-> w["contentType"]]

\* three pdf children, the last two with the same, greatest md5: the second
\* is chosen
C2_Witness ==
    /\ C2_Case
    /\ Len(children.val) = 3
    /\ \A i \in 1..3 : IsAttachmentChild(children.val[i]) /\ BucketOf(children.val[i]) = 1
    /\ Md5Of(children.val[1]) = <<"1", "0">>
    /\ Md5Of(children.val[2]) = <<"9">>
    /\ Md5Of(children.val[3]) = <<"9">>
    /\ attachment # NoneObj
    /\ attachment.key = <<"CHILD", "2">>

\* exactly one child of the list is an attachment; it has a key and no
\* contentType
OnlyBareAttachmentChild(cs) ==
    /\ Cardinality(AttachmentPositions(cs)) = 1
    /\ \A i \in AttachmentPositions(cs) :
           /\ "key" \in DOMAIN ChildData(cs[i])
           /\ "contentType" \notin DOMAIN ChildData(cs[i])

\* C5: an absent contentType never prevents selection: a record that is
\* itself an attachment without contentType yields its own key, and a record
\* whose only attachment child has no contentType yields that child.
C5_AbsentContentTypeSelected ==
    pc = "returned" =>
        /\ BareAttachment(item)
             => /\ raised = NoExc
                /\ attachment # NoneObj
                /\ attachment.key = item["data"]["key"]
        /\ (/\ Get(item["data"], "itemType", None) # <<"attachment">>
            /\ children # NoneObj /\ children.ok
            /\ OnlyBareAttachmentChild(children.val))
             => /\ attachment # NoneObj
                /\ \A i \in AttachmentPositions(children.val) :
                       attachment.key = ChildData(children.val[i])["key"]

\* C6: for a record that is itself an attachment with a contentType,
\* get_attachment_details returns the record's own key and content type
\* and makes no children fetch.
C6_DirectAttachmentNoFetch ==
    (/\ pc = "returned"
     /\ Get(item["data"], "itemType", None) = <<"attachment">>
     /\ "contentType" \in DOMAIN item["data"])
    => /\ raised = NoExc
       /\ attachment = [key |-> item["data"]["key"],
                        content_type |-> item["data"]["contentType"]]
       /\ \A i \in 1..Len(calls) : calls[i].name # "children"

C6_Witness ==
    /\ pc = "returned"
    /\ item = HtmlAttachmentItem
    /\ attachment = [key |-> <<"HTML0002">>, content_type |-> <<"text/html">>]
    /\ calls = <<>>

----------------------------------------------------------------------------
(* Properties of format_item *)

SectionLabels ==
    <<"Title:", "Type:", "Date:", "Authors:", "Abstract:", "Tags:", "URL:",
      "DOI:", "Number of notes:">>

SectionFields ==
    <<"title", "itemType", "date", "creators", "abstractNote", "tags", "url", "DOI">>

\* the field of section k is present and non-empty; the first three sections
\* are always shown, the last one for a numChildren greater than 0
SectionExpected(it, k) ==
    IF k <= 3 THEN TRUE
    ELSE IF k <= 8
    THEN SectionFields[k] \in DOMAIN it["data"] /\ it["data"][SectionFields[k]] # <<>>
    ELSE /\ "meta" \in DOMAIN it
         /\ "numChildren" \in DOMAIN it["meta"]
         /\ it["meta"]["numChildren"] > 0

\* the lines of text that start with the label of section k
SectionLines(text, k) ==
    LET lines == SplitLines(text)
    IN {i \in 1..Len(lines) : lines[i] # <<>> /\ Head(lines[i]) = SectionLabels[k]}

FieldOr(it, f, default) ==
    IF f \in DOMAIN it["data"] THEN it["data"][f] ELSE default

\* C10: format_item emits its sections in the fixed order; Title, Type and
\* Date are always there, with their defaults when the field is absent; each
\* later section is there iff its field is present and non-empty; the notes
\* line is absent for numChildren absent or 0 and shows the count otherwise.
C10_SectionsInOrder ==
    pc = "done" =>
        LET lines == SplitLines(result)
        IN /\ \A k \in 1..9 :
                Cardinality(SectionLines(result, k)) =
                    IF SectionExpected(item, k) THEN 1 ELSE 0
           /\ \A j, k \in 1..9 :
                (j < k /\ SectionExpected(item, j) /\ SectionExpected(item, k))
                    => \A a \in SectionLines(result, j) :
                           \A b \in SectionLines(result, k) : a < b
           /\ lines[1] = <<"Title:", SP>> \o FieldOr(item, "title", <<"Untitled">>)
           /\ lines[2] = <<"Type:", SP>> \o FieldOr(item, "itemType", <<"unknown">>)
           /\ lines[3] = <<"Date:", SP>> \o FieldOr(item, "date", <<"No date">>)
           /\ SectionExpected(item, 9) =>
                lines[Len(lines)] =
                    <<"Number of notes:", SP>> \o Decimal(item["meta"]["numChildren"])

\* every optional section is shown, with a count of two digits
C10_Witness ==
    /\ pc = "done"
    /\ op = "format"
    /\ \A k \in 1..9 : SectionExpected(item, k)
    /\ item["meta"]["numChildren"] >= 10
    /\ Len(item["data"]["creators"]) = 2
    /\ Len(SplitLines(result)) = 13

----------------------------------------------------------------------------
(* Properties of the calls made on the external client *)

TagValues == {None, <<"article">>, <<"another">>}

\* C11: search_items hands the search parameters to the client exactly
\* once, as exactly {q: query, qmode, limit} with the defaults
\* "titleCreatorYear" and 10 for the arguments the caller left out, and only
\* then retrieves the items, once; the tag is not forwarded: the call is the
\* same whatever the tag, and the text returned is determined by the records
\* retrieved.
C11_SearchParameters ==
    op = "search" =>
        /\ Len(calls) <= 2
        /\ Len(calls) >= 1 =>
            /\ calls[1].name = "add_parameters"
            /\ calls[1].arg =
                 [q |-> args.query,
                  qmode |-> IF "qmode" \in args.passed THEN args.qmode
                            ELSE <<"titleCreatorYear">>,
                  limit |-> IF "limit" \in args.passed THEN args.limit ELSE 10]
            /\ \A t \in TagValues :
                 AddParametersArgs([args EXCEPT !.tag = t]) = calls[1].arg
        /\ Len(calls) = 2 => (calls[2].name = "items" /\ calls[1].ok)
        /\ (pc = "done" /\ zot # NoneObj) =>
            /\ Len(calls) >= 1
            /\ calls[1].ok => Len(calls) = 2
        /\ (pc = "done" /\ Len(calls) = 2 /\ calls[2].ok) =>
            result = SearchReport(results)

\* a search with a tag and the default qmode and limit returned a listing
C11_Witness ==
    /\ op = "search" /\ pc = "done"
    /\ args.tag = <<"article">>
    /\ args.passed = {"query", "tag"}
    /\ Len(calls) = 2 /\ calls[2].ok
    /\ calls[1].arg = [q |-> <<"test">>, qmode |-> <<"titleCreatorYear">>, limit |-> 10]
    /\ results = <<SampleItem>>
    /\ result # None

CallNames == [i \in 1..Len(calls) |-> calls[i].name]

\* C12: in an item_fulltext request the calls are the item fetch, then the
\* children fetch, then the fulltext fetch, each at most once; the item
\* fetch is the first call; the children fetch is made only for a found
\* record that is not an attachment; the fulltext fetch is made only with an
\* attachment selected, with that attachment's key; and nothing is called
\* after an item fetch that failed or found nothing.
C12_CallOrder ==
    op = "fulltext" =>
        /\ CallNames \in {<<>>, <<"item">>, <<"item", "children">>,
                          <<"item", "fulltext_item">>,
                          <<"item", "children", "fulltext_item">>}
        /\ Len(calls) >= 1 => calls[1].arg = args.item_key
        /\ (zot # NoneObj /\ pc # "item") => Len(calls) >= 1
        /\ \A i \in 1..Len(calls) :
             calls[i].name = "children" =>
                /\ calls[1].ok
                /\ TruthyObj(item)
                /\ Get(item["data"], "itemType", None) # <<"attachment">>
        /\ \A i \in 1..Len(calls) :
             calls[i].name = "fulltext_item" =>
                /\ attachment # NoneObj
                /\ calls[i].arg = attachment.key
                /\ IF Get(item["data"], "itemType", None) = <<"attachment">>
                   THEN attachment.key = item["data"]["key"]
                   ELSE /\ children # NoneObj /\ children.ok
                        /\ \E j \in AttachmentPositions(children.val) :
                               ChildData(children.val[j])["key"] = attachment.key
        /\ (Len(calls) >= 1 /\ (~calls[1].ok \/ ~TruthyObj(item))) => Len(calls) = 1

\* all three calls were made, the last with the key of the selected child
C12_Witness ==
    /\ op = "fulltext" /\ pc = "done"
    /\ CallNames = <<"item", "children", "fulltext_item">>
    /\ item = SampleItem
    /\ children.val = <<NoteChild, HtmlChild>>
    /\ calls[3].arg = <<"HTML0001">>
    /\ calls[3].ok

====
